---- MODULE Spec2Model ----
(***************************************************************************)
(* Model of the canonical-form interval-set engine of                      *)
(* src/libinterval/interval_set.rs (crate intervallum).                    *)
(*                                                                         *)
(* An IntervalSet is the pair (intervals, size) of the struct.  A third    *)
(* field, ok, records whether every debug_assert! met while the value was  *)
(* built held; the intervals and the size are those a build without debug  *)
(* assertions computes, so a value with ok = FALSE is one a debug build    *)
(* would have panicked on and a release build returns.  A fourth field,    *)
(* wrapped, records whether an addition to the cached size made while the  *)
(* value was built exceeded the size type and wrapped around.              *)
(*                                                                         *)
(* The bound type is a scaled-down signed integer: its sentinel range is   *)
(* MinValue..MaxValue as i8's is -127..127, and the cached size lives in   *)
(* the unsigned type of the same width, i.e. modulo SizeModulus.           *)
(***************************************************************************)
EXTENDS Integers, Sequences, FiniteSets, TLC

VARIABLES A, B, C, ret

vars == <<A, B, C, ret>>

(***************************************************************************)
(* Bounds of the model.                                                    *)
(***************************************************************************)
\* Largest value of the bound type (Width::max_value()), scaled down.
MaxValue == 2

\* Most extend calls made on one set.
MaxExtends == 2

\* Longest collection handed to extend / to_interval_set in one call.
MaxLen == 2

(***************************************************************************)
(* The bound type (trait Width, crate::ops; not part of interval_set.rs).  *)
(***************************************************************************)
\* Width::min_value() of a signed type: i8 has -127 for 127.
MinValue == -MaxValue

\* The cached size has type Width::Output, the unsigned type as wide as the
\* bound: 256 values for i8, whose whole() has size 255.
SizeModulus == MaxValue - MinValue + 2

Bound == MinValue..MaxValue

Min(a, b) == IF a <= b THEN a ELSE b

Max(a, b) == IF a >= b THEN a ELSE b

(***************************************************************************)
(* The single-interval primitive (crate::interval::Interval; not part of   *)
(* interval_set.rs).  Modelled from its contract in the specification.     *)
(***************************************************************************)
interval_new(lb, ub) == [lb |-> lb, ub |-> ub]

interval_empty == interval_new(1, 0)

interval_whole == interval_new(MinValue, MaxValue)

interval_is_empty(i) == i.lb > i.ub

\* Cardinality, widened to the unsigned type of the same width.
interval_size(i) == IF interval_is_empty(i) THEN 0 ELSE (i.ub - i.lb + 1) % SizeModulus

interval_contains(i, v) == i.lb <= v /\ v <= i.ub

\* Exact intersection of two ranges.
interval_intersection(i, j) ==
    IF interval_is_empty(i) \/ interval_is_empty(j) THEN interval_empty
    ELSE LET lb == Max(i.lb, j.lb)
             ub == Min(i.ub, j.ub)
         IN IF lb > ub THEN interval_empty ELSE interval_new(lb, ub)

interval_overlap(i, j) == ~interval_is_empty(interval_intersection(i, j))

\* The convex union of two ranges.
interval_hull(i, j) ==
    IF interval_is_empty(i) THEN j
    ELSE IF interval_is_empty(j) THEN i
    ELSE interval_new(Min(i.lb, j.lb), Max(i.ub, j.ub))

interval_is_subset(i, j) ==
    IF interval_is_empty(i) THEN TRUE
    ELSE IF interval_is_empty(j) THEN FALSE
    ELSE j.lb <= i.lb /\ i.ub <= j.ub

(***************************************************************************)
(* Canonical store.                                                        *)
(***************************************************************************)
\* Element k of a Vec, indexed from 0 as in the source.
At(v, k) == v[k + 1]

empty == [intervals |-> <<>>, size |-> 0, ok |-> TRUE, wrapped |-> FALSE]

\* Cardinality::size: the cached field.
size(s) == s.size

\* gcollections' blanket IsEmpty over Cardinality: the cached size is zero.
is_empty(s) == size(s) = 0

interval_count(s) == Len(s.intervals)

from_interval(i) ==
    [intervals |-> <<i>>, size |-> interval_size(i), ok |-> TRUE, wrapped |-> FALSE]

back_idx(s) == Len(s.intervals) - 1

front(s) == At(s.intervals, 0)

back(s) == At(s.intervals, back_idx(s))

span_slice(s, left, right) ==
    interval_new(At(s.intervals, left).lb, At(s.intervals, right).ub)

span(s) == IF is_empty(s) THEN interval_empty ELSE span_slice(s, 0, back_idx(s))

\* joinable that joins overlapping intervals only, not adjacent ones.
joinable_overlap_only(first, second) ==
    IF first.ub = MaxValue THEN TRUE
    ELSE first.ub >= second.lb

joinable(first, second) ==
    IF first.ub = MaxValue THEN TRUE
    ELSE first.ub + 1 >= second.lb

\* The two debug assertions of push.
push_asserts(s, x) ==
    /\ ~interval_is_empty(x)
    /\ is_empty(s) \/ ~joinable(back(s), x)

\* push that adds the size of the interval twice.
push_adds_size_twice(s, x) ==
    [intervals |-> Append(s.intervals, x),
     size      |-> (s.size + 2 * interval_size(x)) % SizeModulus,
     ok        |-> s.ok /\ push_asserts(s, x),
     wrapped   |-> s.wrapped \/ s.size + 2 * interval_size(x) >= SizeModulus]

push(s, x) ==
    [intervals |-> Append(s.intervals, x),
     size      |-> (s.size + interval_size(x)) % SizeModulus,
     ok        |-> s.ok /\ push_asserts(s, x),
     wrapped   |-> s.wrapped \/ s.size + interval_size(x) >= SizeModulus]

\* pop on a non-empty Vec; the popped interval is back(s).
pop(s) ==
    [intervals |-> SubSeq(s.intervals, 1, Len(s.intervals) - 1),
     size      |-> (s.size - interval_size(back(s))) % SizeModulus,
     ok        |-> s.ok,
     wrapped   |-> s.wrapped]

\* The two debug assertions of join_or_push on a non-empty store.
join_or_push_asserts(s, x) ==
    /\ ~interval_is_empty(x)
    /\ back(s).lb <= x.lb

\* join_or_push that adds the size of the hull to the size the store had
\* with the interval the hull replaces.
join_or_push_double_counts(s, x) ==
    IF is_empty(s) THEN push(s, x)
    ELSE LET checked == [s EXCEPT !.ok = s.ok /\ join_or_push_asserts(s, x)]
         IN IF joinable(back(checked), x)
            THEN LET joint == interval_hull(back(checked), x)
                 IN [push(pop(checked), joint) EXCEPT
                        !.size = (checked.size + interval_size(joint)) % SizeModulus]
            ELSE push(checked, x)

\* join_or_push that appends the interval without joining it to the last one.
join_or_push_without_join(s, x) ==
    IF is_empty(s) THEN push(s, x)
    ELSE push([s EXCEPT !.ok = s.ok /\ join_or_push_asserts(s, x)], x)

join_or_push(s, x) ==
    IF is_empty(s) THEN push(s, x)
    ELSE LET checked == [s EXCEPT !.ok = s.ok /\ join_or_push_asserts(s, x)]
         IN IF joinable(back(checked), x)
            THEN push(pop(checked), interval_hull(back(checked), x))
            ELSE push(checked, x)

RECURSIVE extend_at_back(_, _)
extend_at_back(s, iterable) ==
    IF iterable = <<>> THEN s
    ELSE extend_at_back(join_or_push(s, Head(iterable)), Tail(iterable))

(***************************************************************************)
(* The store mutators in a build with debug assertions: the outcome of a   *)
(* call is the store as the call left it and the message of the assertion  *)
(* that stopped it, if one did; at counts the join_or_push calls made.     *)
(***************************************************************************)
NoPanic == "none"

CannotPushEmpty == "Cannot push empty interval."

MustBeOrdered == "The intervals array must be ordered and intervals must not be joinable. For a safe push, use the union operation."

OnlyToTheBack == "This operation is only for pushing interval to the back of the array, possibly overlapping with the last element."

outcome(s, panic) == [store |-> s, panic |-> panic, at |-> 0]

push_debug(s, x) ==
    IF interval_is_empty(x) THEN outcome(s, CannotPushEmpty)
    ELSE IF ~(is_empty(s) \/ ~joinable(back(s), x)) THEN outcome(s, MustBeOrdered)
    ELSE outcome(push(s, x), NoPanic)

\* join_or_push that joins the interval to the last one before it checks
\* the order.
join_or_push_debug_checks_late(s, x) ==
    IF is_empty(s) THEN push_debug(s, x)
    ELSE IF interval_is_empty(x) THEN outcome(s, CannotPushEmpty)
    ELSE IF ~(back(s).lb <= x.lb)
         THEN outcome(push(pop(s), interval_hull(back(s), x)), OnlyToTheBack)
    ELSE IF joinable(back(s), x) THEN push_debug(pop(s), interval_hull(back(s), x))
    ELSE push_debug(s, x)

join_or_push_debug(s, x) ==
    IF is_empty(s) THEN push_debug(s, x)
    ELSE IF interval_is_empty(x) THEN outcome(s, CannotPushEmpty)
    ELSE IF ~(back(s).lb <= x.lb) THEN outcome(s, OnlyToTheBack)
    ELSE IF joinable(back(s), x) THEN push_debug(pop(s), interval_hull(back(s), x))
    ELSE push_debug(s, x)

\* The for loop of extend_at_back, about to hand element k of the iterable
\* (counted from 1) to join_or_push; a panic ends the loop.
RECURSIVE extend_at_back_debug_loop(_, _, _)
extend_at_back_debug_loop(s, iterable, k) ==
    IF k > Len(iterable) THEN outcome(s, NoPanic)
    ELSE LET o == join_or_push_debug(s, iterable[k])
         IN IF o.panic # NoPanic THEN [o EXCEPT !.at = k]
            ELSE extend_at_back_debug_loop(o.store, iterable, k + 1)

extend_at_back_debug(s, iterable) == extend_at_back_debug_loop(s, iterable, 1)

(***************************************************************************)
(* Locator.                                                                *)
(***************************************************************************)
\* The three debug assertions of find_interval_between.
find_interval_between_asserts(s, value, left, right) ==
    /\ left <= right
    /\ right < Len(s.intervals)
    /\ interval_contains(span_slice(s, left, right), value)

\* The binary search loop; the result is the pair (left, right) of indices.
RECURSIVE find_interval_between(_, _, _, _)
\* The binary search returning (left, right) when the window closes.
find_interval_between_unswapped(s, value, left, right) ==
    IF left <= right
    THEN LET mid_idx == left + (right - left) \div 2
             mid     == At(s.intervals, mid_idx)
         IN IF mid.lb > value THEN find_interval_between(s, value, left, mid_idx - 1)
            ELSE IF mid.ub < value THEN find_interval_between(s, value, mid_idx + 1, right)
            ELSE <<mid_idx, mid_idx>>
    ELSE <<left, right>>

find_interval_between(s, value, left, right) ==
    IF left <= right
    THEN LET mid_idx == left + (right - left) \div 2
             mid     == At(s.intervals, mid_idx)
         IN IF mid.lb > value THEN find_interval_between(s, value, left, mid_idx - 1)
            ELSE IF mid.ub < value THEN find_interval_between(s, value, mid_idx + 1, right)
            ELSE <<mid_idx, mid_idx>>
    ELSE <<right, left>>

\* One iteration of the while loop that moves left to mid_idx.
find_interval_between_iteration_keeps_mid(s, value, left, right) ==
    LET mid_idx == left + (right - left) \div 2
        mid     == At(s.intervals, mid_idx)
    IN IF mid.lb > value
       THEN IF mid_idx = 0
            THEN [kind |-> "panic", left |-> left, right |-> right]
            ELSE [kind |-> "continue", left |-> left, right |-> mid_idx - 1]
       ELSE IF mid.ub < value
            THEN [kind |-> "continue", left |-> mid_idx, right |-> right]
            ELSE [kind |-> "return", left |-> mid_idx, right |-> mid_idx]

\* One iteration of the while loop of find_interval_between on the window
\* [left, right], left <= right: the window it continues with, or the pair
\* it returns.  The indices are usize: mid_idx - 1 with mid_idx = 0 panics
\* with debug assertions, and wraps to the largest usize without them,
\* after which the next self.intervals[mid_idx] is out of bounds and panics.
find_interval_between_iteration(s, value, left, right) ==
    LET mid_idx == left + (right - left) \div 2
        mid     == At(s.intervals, mid_idx)
    IN IF mid.lb > value
       THEN IF mid_idx = 0
            THEN [kind |-> "panic", left |-> left, right |-> right]
            ELSE [kind |-> "continue", left |-> left, right |-> mid_idx - 1]
       ELSE IF mid.ub < value
            THEN [kind |-> "continue", left |-> mid_idx + 1, right |-> right]
            ELSE [kind |-> "return", left |-> mid_idx, right |-> mid_idx]

None == <<>>

find_interval(s, value) ==
    IF ~interval_contains(span(s), value) THEN None
    ELSE find_interval_between(s, value, 0, back_idx(s))

contains(s, value) ==
    LET found == find_interval(s, value)
    IN IF found # None THEN found[1] = found[2] ELSE FALSE

(***************************************************************************)
(* Merge algebra.  A Peekable iterator over a Vec is the Vec and the index *)
(* of the element peek() shows; it is exhausted when the index is Len.     *)
(***************************************************************************)
peek_is_some(v, k) == k < Len(v)

\* advance_one with the choice of advance_lower: TRUE moves a, FALSE moves b.
advance_lower(xs, a, ys, b) == At(xs, a).lb < At(ys, b).lb

\* advance_one: the cursors after to_advance.next(); who_advance is what
\* choose returned for the two intervals peeked.
advance_one(a, b, who_advance) == IF who_advance THEN <<a + 1, b>> ELSE <<a, b + 1>>

\* advance_lub that compares the lower bounds.
advance_lub_by_lower(xs, a, ys, b) == At(xs, a).lb < At(ys, b).lb

\* advance_one with the choice of advance_lub.
advance_lub(xs, a, ys, b) == At(xs, a).ub < At(ys, b).ub

\* The while loop of union, followed by the two extend_at_back calls.
RECURSIVE union_loop(_, _, _, _, _)
union_loop(xs, a, ys, b, res) ==
    IF peek_is_some(xs, a) /\ peek_is_some(ys, b)
    THEN IF advance_lower(xs, a, ys, b)
         THEN union_loop(xs, a + 1, ys, b, join_or_push(res, At(xs, a)))
         ELSE union_loop(xs, a, ys, b + 1, join_or_push(res, At(ys, b)))
    ELSE extend_at_back(extend_at_back(res, SubSeq(xs, a + 1, Len(xs))),
                        SubSeq(ys, b + 1, Len(ys)))

\* union whose result always starts from the receiver's first interval.
union_starts_from_self(self, rhs) ==
    LET xs == self.intervals
        ys == rhs.intervals
    IN IF ~peek_is_some(xs, 0) \/ ~peek_is_some(ys, 0)
       THEN union_loop(xs, 0, ys, 0, empty)
       ELSE union_loop(xs, 1, ys, 0, from_interval(At(xs, 0)))

union(self, rhs) ==
    LET xs == self.intervals
        ys == rhs.intervals
    IN IF ~peek_is_some(xs, 0) \/ ~peek_is_some(ys, 0)
       THEN \* from_lower_iterator gives the empty set and consumes nothing
            union_loop(xs, 0, ys, 0, empty)
       ELSE IF advance_lower(xs, 0, ys, 0)
            THEN union_loop(xs, 1, ys, 0, from_interval(At(xs, 0)))
            ELSE union_loop(xs, 0, ys, 1, from_interval(At(ys, 0)))

\* Cursor positions <<a, b>> where advance_to_first_overlapping stops; it
\* returns true exactly when neither cursor is exhausted there.
RECURSIVE advance_to_first_overlapping(_, _, _, _)
advance_to_first_overlapping(xs, a, ys, b) ==
    IF peek_is_some(xs, a) /\ peek_is_some(ys, b)
    THEN IF interval_overlap(At(xs, a), At(ys, b)) THEN <<a, b>>
         ELSE IF advance_lower(xs, a, ys, b)
              THEN advance_to_first_overlapping(xs, a + 1, ys, b)
              ELSE advance_to_first_overlapping(xs, a, ys, b + 1)
    ELSE <<a, b>>

RECURSIVE intersection_loop(_, _, _, _, _)
intersection_loop(xs, a, ys, b, res) ==
    LET at == advance_to_first_overlapping(xs, a, ys, b)
        i  == at[1]
        j  == at[2]
    IN IF peek_is_some(xs, i) /\ peek_is_some(ys, j)
       THEN LET pushed == push(res, interval_intersection(At(xs, i), At(ys, j)))
            IN IF advance_lub(xs, i, ys, j)
               THEN intersection_loop(xs, i + 1, ys, j, pushed)
               ELSE intersection_loop(xs, i, ys, j + 1, pushed)
       ELSE res

intersection(self, rhs) ==
    intersection_loop(self.intervals, 0, rhs.intervals, 0, empty)

(***************************************************************************)
(* Derived algebra.                                                        *)
(***************************************************************************)
push_left_complement(x, res) ==
    IF x.lb # MinValue THEN push(res, interval_new(MinValue, x.lb - 1)) ELSE res

\* push_right_complement whose gap starts at the upper bound itself.
push_right_complement_from_upper(x, res) ==
    IF x.ub # MaxValue THEN push(res, interval_new(x.ub, MaxValue)) ELSE res

push_right_complement(x, res) ==
    IF x.ub # MaxValue THEN push(res, interval_new(x.ub + 1, MaxValue)) ELSE res

\* The for loop of complement over i in 1..len-1.
RECURSIVE complement_loop(_, _, _)
\* The loop of complement with gaps that start at the upper bound of the
\* previous interval.
complement_loop_from_upper(self, i, res) ==
    IF i < Len(self.intervals)
    THEN LET current  == At(self.intervals, i)
             previous == At(self.intervals, i - 1)
         IN complement_loop(self, i + 1,
                push(res, interval_new(previous.ub, current.lb - 1)))
    ELSE res

complement_loop(self, i, res) ==
    IF i < Len(self.intervals)
    THEN LET current  == At(self.intervals, i)
             previous == At(self.intervals, i - 1)
         IN complement_loop(self, i + 1,
                push(res, interval_new(previous.ub + 1, current.lb - 1)))
    ELSE res

complement(self) ==
    IF is_empty(self) THEN push(empty, interval_whole)
    ELSE push_right_complement(back(self),
            complement_loop(self, 1, push_left_complement(front(self), empty)))

\* difference that intersects with rhs itself.
difference_without_complement(self, rhs) == intersection(self, rhs)

difference(self, rhs) == intersection(self, complement(rhs))

\* symmetric_difference that removes rhs instead of the intersection.
symmetric_difference_minus_rhs(self, rhs) == difference(union(self, rhs), rhs)

symmetric_difference(self, rhs) ==
    difference(union(self, rhs), intersection(self, rhs))

(***************************************************************************)
(* Equality and order.                                                     *)
(***************************************************************************)
eq(self, other) ==
    IF size(self) # size(other) THEN FALSE
    ELSE self.intervals = other.intervals

\* The for loop of is_subset with its advancing left search bound.
RECURSIVE is_subset_loop(_, _, _, _)
\* The loop of is_subset accepting an interval as soon as its lower bound
\* lies in an interval of other.
is_subset_loop_lower_only(self, other, k, left) ==
    IF k < Len(self.intervals)
    THEN LET interval == At(self.intervals, k)
             found    == find_interval_between(other, interval.lb, left,
                                               Len(other.intervals) - 1)
         IN IF found[1] = found[2]
            THEN is_subset_loop(self, other, k + 1, found[1])
            ELSE FALSE
    ELSE TRUE

is_subset_loop(self, other, k, left) ==
    IF k < Len(self.intervals)
    THEN LET interval == At(self.intervals, k)
             found    == find_interval_between(other, interval.lb, left,
                                               Len(other.intervals) - 1)
             l        == found[1]
             r        == found[2]
         IN IF l = r /\ interval_is_subset(interval, At(other.intervals, l))
            THEN is_subset_loop(self, other, k + 1, l)
            ELSE FALSE
    ELSE TRUE

\* is_subset whose size fast-fail also rejects sets of equal size.
is_subset_strict_size(self, other) ==
    IF is_empty(self) THEN TRUE
    ELSE IF size(self) >= size(other) \/ ~interval_is_subset(span(self), span(other))
         THEN FALSE
         ELSE is_subset_loop(self, other, 0, 0)

is_subset(self, other) ==
    IF is_empty(self) THEN TRUE
    ELSE IF size(self) > size(other) \/ ~interval_is_subset(span(self), span(other))
         THEN FALSE
         ELSE is_subset_loop(self, other, 0, 0)

(***************************************************************************)
(* Constructors and conversions.                                           *)
(***************************************************************************)
\* Range::new; its debug assertion is lb <= ub.
new(lb, ub) == [from_interval(interval_new(lb, ub)) EXCEPT !.ok = (lb <= ub)]

singleton(x) == new(x, x)

whole == push(empty, interval_whole)

\* (Bound, Bound)::to_interval of crate::interval.
to_interval(p) == interval_new(p[1], p[2])

\* sort_unstable_by_key(|i| i.lower()): every arrangement of v in ascending
\* order of lower bound; intervals with equal lower bounds come in any order.
sort_unstable_by_key(v) ==
    LET n     == Len(v)
        perms == {p \in [1..n -> 1..n] : \A i, j \in 1..n : i # j => p[i] # p[j]}
    IN {[k \in 1..n |-> v[p[k]]] : p \in
           {q \in perms : \A i, j \in 1..n : i < j => v[q[i]].lb <= v[q[j]].lb}}

\* to_interval_set that appends the ranges in the order given.
to_interval_set_without_sort(v) ==
    {extend_at_back(empty, [k \in 1..Len(v) |-> to_interval(v[k])])}

\* Vec<(Bound, Bound)>::to_interval_set: the results the unstable sort allows.
to_interval_set(v) ==
    {extend_at_back(empty, to_add) :
        to_add \in sort_unstable_by_key([k \in 1..Len(v) |-> to_interval(v[k])])}

\* extend that replaces the receiver with the set built from the iterable.
extend_replaces_self(self, iterable) ==
    {extend_at_back(empty, intervals) : intervals \in sort_unstable_by_key(iterable)}

\* Extend::extend: the values of *self the unstable sort allows.
extend(self, iterable) ==
    {union(self, extend_at_back(empty, intervals)) :
        intervals \in sort_unstable_by_key(iterable)}

(***************************************************************************)
(* Shrinking.                                                              *)
(***************************************************************************)
\* Pushes intervals[from .. to - 1] one by one, as the for loops of the
\* shrink operations do.
RECURSIVE push_range(_, _, _, _)
push_range(res, v, from, to) ==
    IF from < to THEN push_range(push(res, At(v, from)), v, from + 1, to) ELSE res

\* shrink_left that keeps the interval found whole instead of cutting it.
shrink_left_without_cut(self, lb) ==
    LET found == find_interval(self, lb)
    IN IF found # None
       THEN LET left  == found[1]
                first == IF At(self.intervals, left).ub >= lb
                         THEN push(empty, At(self.intervals, left))
                         ELSE empty
            IN push_range(first, self.intervals, left + 1, Len(self.intervals))
       ELSE IF is_empty(self) \/ lb > back(self).ub THEN empty
       ELSE self

shrink_left(self, lb) ==
    LET found == find_interval(self, lb)
    IN IF found # None
       THEN LET left  == found[1]
                first == IF At(self.intervals, left).ub >= lb
                         THEN push(empty, interval_new(lb, At(self.intervals, left).ub))
                         ELSE empty
            IN push_range(first, self.intervals, left + 1, Len(self.intervals))
       ELSE IF is_empty(self) \/ lb > back(self).ub THEN empty
       ELSE self

shrink_right(self, ub) ==
    LET found == find_interval(self, ub)
    IN IF found # None
       THEN LET right == found[2]
                kept  == push_range(empty, self.intervals, 0, right)
            IN IF At(self.intervals, right).lb <= ub
               THEN push(kept, interval_new(At(self.intervals, right).lb, ub))
               ELSE kept
       ELSE IF is_empty(self) \/ ub < front(self).lb THEN empty
       ELSE self

(***************************************************************************)
(* Arithmetic of the single-interval primitive (crate::interval; not part  *)
(* of interval_set.rs).  Modelled from its contract in the specification:  *)
(* exact sums and differences, the convex hull of the products.            *)
(***************************************************************************)
interval_add(i, j) ==
    IF interval_is_empty(i) \/ interval_is_empty(j) THEN interval_empty
    ELSE interval_new(i.lb + j.lb, i.ub + j.ub)

interval_sub(i, j) ==
    IF interval_is_empty(i) \/ interval_is_empty(j) THEN interval_empty
    ELSE interval_new(i.lb - j.ub, i.ub - j.lb)

interval_mul(i, j) ==
    IF interval_is_empty(i) \/ interval_is_empty(j) THEN interval_empty
    ELSE LET p == {i.lb * j.lb, i.lb * j.ub, i.ub * j.lb, i.ub * j.ub}
         IN interval_new(CHOOSE m \in p : \A q \in p : m <= q,
                         CHOOSE m \in p : \A q \in p : m >= q)

interval_add_bound(i, c) == interval_add(i, interval_new(c, c))

interval_sub_bound(i, c) == interval_sub(i, interval_new(c, c))

interval_mul_bound(i, c) == interval_mul(i, interval_new(c, c))

\* The interval operator a set operator hands to for_all_pairs, stable_map
\* or map; the closure is named by the operator it applies.
apply_interval_op(f, i, j) ==
    CASE f = "add" -> interval_add(i, j)
      [] f = "sub" -> interval_sub(i, j)
      [] f = "mul" -> interval_mul(i, j)

(***************************************************************************)
(* Arithmetic extension.                                                   *)
(***************************************************************************)
\* The double for loop of for_all_pairs, at pair (i, j) of the two Vecs.
RECURSIVE for_all_pairs_loop(_, _, _, _, _, _)
\* The loop of for_all_pairs keeping the result of the last pair only.
for_all_pairs_loop_keeps_last(self, other, f, i, j, res) ==
    IF i >= Len(self.intervals) THEN res
    ELSE IF j >= Len(other.intervals)
         THEN for_all_pairs_loop(self, other, f, i + 1, 0, res)
         ELSE for_all_pairs_loop(self, other, f, i, j + 1,
                  from_interval(apply_interval_op(f,
                      At(self.intervals, i), At(other.intervals, j))))

for_all_pairs_loop(self, other, f, i, j, res) ==
    IF i >= Len(self.intervals) THEN res
    ELSE IF j >= Len(other.intervals)
         THEN for_all_pairs_loop(self, other, f, i + 1, 0, res)
         ELSE for_all_pairs_loop(self, other, f, i, j + 1,
                  union(res, from_interval(apply_interval_op(f,
                      At(self.intervals, i), At(other.intervals, j)))))

for_all_pairs(self, other, f) == for_all_pairs_loop(self, other, f, 0, 0, empty)

\* stable_map that copies the intervals as well as the size.
stable_map_keeps_intervals(self, f, c) ==
    [intervals |-> self.intervals, size |-> self.size, ok |-> self.ok,
     wrapped |-> self.wrapped]

\* stable_map with the closure |x| x f c: the size is copied, not recomputed.
stable_map(self, f, c) ==
    [intervals |-> [k \in 1..Len(self.intervals) |->
                       apply_interval_op(f, self.intervals[k], interval_new(c, c))],
     size      |-> self.size,
     ok        |-> self.ok,
     wrapped   |-> self.wrapped]

\* map with the closure |i| i f c: a fold of push from the empty set.
RECURSIVE map_fold(_, _, _, _, _)
map_fold(self, f, c, k, r) ==
    IF k < Len(self.intervals)
    THEN map_fold(self, f, c, k + 1,
             push(r, apply_interval_op(f, At(self.intervals, k), interval_new(c, c))))
    ELSE r

map(self, f, c) == map_fold(self, f, c, 0, empty)

add(self, other) == for_all_pairs(self, other, "add")

sub(self, other) == for_all_pairs(self, other, "sub")

mul(self, other) == for_all_pairs(self, other, "mul")

add_bound(self, c) == stable_map(self, "add", c)

sub_bound(self, c) == stable_map(self, "sub", c)

mul_bound(self, c) ==
    IF is_empty(self) THEN empty
    ELSE IF c = 0 THEN singleton(0)
    ELSE IF c = 1 THEN self
    ELSE map(self, "mul", c)

\* The bounds an operator's per-interval results have: the values of the
\* bound type the operation computes with.
pair_results(self, other, f) ==
    {apply_interval_op(f, self.intervals[i], other.intervals[j]) :
        i \in 1..Len(self.intervals), j \in 1..Len(other.intervals)}

in_range(results) == \A r \in results : r.lb \in Bound /\ r.ub \in Bound

(***************************************************************************)
(* Queries: proper subset, overlap, disjointness, entailment, lattice.     *)
(***************************************************************************)
\* is_proper_subset that only compares the sizes.
is_proper_subset_by_size(self, other) == size(self) < size(other)

is_proper_subset(self, other) == is_subset(self, other) /\ size(self) # size(other)

\* overlap that looks at the first interval of each set only.
overlap_first_pair(self, rhs) ==
    /\ peek_is_some(self.intervals, 0)
    /\ peek_is_some(rhs.intervals, 0)
    /\ interval_overlap(At(self.intervals, 0), At(rhs.intervals, 0))

\* Overlap between two sets: whether advance_to_first_overlapping returned
\* true, i.e. stopped with neither cursor exhausted.
overlap(self, rhs) ==
    LET at == advance_to_first_overlapping(self.intervals, 0, rhs.intervals, 0)
    IN peek_is_some(self.intervals, at[1]) /\ peek_is_some(rhs.intervals, at[2])

\* overlap with a value that accepts every value found within the span.
overlap_bound_within_span(self, value) == find_interval(self, value) # None

\* Overlap<Bound> for IntervalSet.
overlap_bound(self, value) ==
    LET found == find_interval(self, value)
    IN IF found # None THEN found[1] = found[2] ELSE FALSE

\* An Optional is None or holds one value.
optional_empty == None

optional_singleton(v) == <<v>>

\* Overlap<Optional<Bound>> for IntervalSet: map_or(false, |b| self.overlap(b)).
overlap_optional(self, value) ==
    IF value = None THEN FALSE ELSE overlap_bound(self, value[1])

\* Overlap<IntervalSet<Bound>> for the primitive bound types.
bound_overlap(value, other) == overlap_bound(other, value)

is_disjoint(self, rhs) == ~overlap(self, rhs)

\* entail that answers False whenever self is not a subset of other.
entail_two_valued(self, other) ==
    IF is_subset(self, other) THEN "True" ELSE "False"

\* Entailment::entail; the SKleene value is named by its variant.
entail(self, other) ==
    IF is_subset(self, other) THEN "True"
    ELSE IF is_subset(other, self) THEN "False"
    ELSE "Unknown"

\* join that takes the union.
join_as_union(self, other) == union(self, other)

join(self, other) == intersection(self, other)

meet(self, other) == union(self, other)

top == empty

bot == whole

(***************************************************************************)
(* Serialization.  An encoding is what the serializer was handed: the none *)
(* marker, or a sequence of encoded intervals.                             *)
(***************************************************************************)
\* Interval's own encoding (crate::interval): the tuple (lower, upper).
interval_serialize(i) == <<i.lb, i.ub>>

interval_deserialize(t) == interval_new(t[1], t[2])

serialize_none == [kind |-> "none", items |-> <<>>]

collect_seq(items) == [kind |-> "seq", items |-> items]

\* serialize that hands every set, the empty one included, to collect_seq.
serialize_always_seq(self) ==
    collect_seq([k \in 1..Len(self.intervals) |-> interval_serialize(self.intervals[k])])

serialize(self) ==
    IF is_empty(self) THEN serialize_none
    ELSE collect_seq([k \in 1..Len(self.intervals) |->
                         interval_serialize(self.intervals[k])])

\* visit_seq that appends the decoded intervals in the order they come.
visit_seq_appends(seq) ==
    {extend_at_back(empty, [k \in 1..Len(seq) |-> interval_deserialize(seq[k])])}

\* visit_seq: the decoded intervals go through extend on the empty set; the
\* results the unstable sort of extend allows.
visit_seq(seq) ==
    extend(empty, [k \in 1..Len(seq) |-> interval_deserialize(seq[k])])

visit_none == empty

\* deserialize_any hands the none marker to visit_none, a sequence to visit_seq.
deserialize(encoding) ==
    IF encoding.kind = "none" THEN {visit_none} ELSE visit_seq(encoding.items)

(***************************************************************************)
(* Whether every debug assertion met by one call of an operation holds,    *)
(* those of the calls it makes on the way included.                        *)
(***************************************************************************)
\* find_interval calls find_interval_between(value, 0, back_idx) when the
\* span contains the value.
find_interval_asserts(s, value) ==
    interval_contains(span(s), value) =>
        find_interval_between_asserts(s, value, 0, back_idx(s))

shrink_left_asserts(self, lb) ==
    find_interval_asserts(self, lb) /\ shrink_left(self, lb).ok

shrink_right_asserts(self, ub) ==
    find_interval_asserts(self, ub) /\ shrink_right(self, ub).ok

\* The find_interval_between calls of the for loop of is_subset.
RECURSIVE is_subset_loop_asserts(_, _, _, _)
is_subset_loop_asserts(self, other, k, left) ==
    IF k < Len(self.intervals)
    THEN LET interval == At(self.intervals, k)
             right    == Len(other.intervals) - 1
         IN /\ find_interval_between_asserts(other, interval.lb, left, right)
            /\ LET found == find_interval_between(other, interval.lb, left, right)
                   l     == found[1]
                   r     == found[2]
               IN IF l = r /\ interval_is_subset(interval, At(other.intervals, l))
                  THEN is_subset_loop_asserts(self, other, k + 1, l)
                  ELSE TRUE
    ELSE TRUE

is_subset_asserts(self, other) ==
    IF is_empty(self) THEN TRUE
    ELSE IF size(self) > size(other) \/ ~interval_is_subset(span(self), span(other))
         THEN TRUE
         ELSE is_subset_loop_asserts(self, other, 0, 0)

\* difference builds the complement of rhs, then the intersection.
difference_asserts(self, rhs) ==
    complement(rhs).ok /\ intersection(self, complement(rhs)).ok

\* symmetric_difference builds the union and the intersection, then their
\* difference.
symmetric_difference_asserts(self, rhs) ==
    /\ union(self, rhs).ok
    /\ intersection(self, rhs).ok
    /\ difference_asserts(union(self, rhs), intersection(self, rhs))

(***************************************************************************)
(* The state: the sets a caller holds, A, B and C, and what the last call  *)
(* returned, ret.  Every operation takes its operands by reference and     *)
(* returns a new value; extend alone changes its receiver.                 *)
(*                                                                         *)
(* Spec and SpecAlgebra follow a caller that builds A and B by any         *)
(* sequence of operations, keeping each result in place of A or B.         *)
(* SpecOps and SpecOrder start from any sets the conversion produces and   *)
(* apply one operation to them, the result staying in ret beside its       *)
(* operands.                                                               *)
(***************************************************************************)
Registers == {"A", "B"}

Reg(d) == IF d = "A" THEN A ELSE B

Other(d) == IF d = "A" THEN B ELSE A

NoRet == [op |-> "none", args |-> <<>>, val |-> FALSE]

\* A debug build stops at the first failed assertion; the caller goes on
\* only with values built without one.
Running == A.ok /\ B.ok /\ C.ok

\* The caller keeps v as set d.
Store(d, v) ==
    /\ A' = IF d = "A" THEN v ELSE A
    /\ B' = IF d = "B" THEN v ELSE B
    /\ ret' = NoRet
    /\ UNCHANGED C

\* The call of op on the sets named in args returned val; the sets are as
\* they were.
Return(op, args, val) ==
    /\ ret' = [op |-> op, args |-> args, val |-> val]
    /\ UNCHANGED <<A, B, C>>

\* In-range inputs: the non-empty ranges of the bound type ...
Pairs == {p \in Bound \X Bound : p[1] <= p[2]}

\* ... and the collections of at most MaxLen of them.
InputLists == UNION {[1..n -> Pairs] : n \in 0..MaxLen}

\* The values of S as a collection of (v, v) pairs.
RECURSIVE SingletonPairs(_)
SingletonPairs(S) ==
    IF S = {} THEN <<>>
    ELSE LET v == CHOOSE x \in S : \A y \in S : x >= y
         IN <<<<v, v>>>> \o SingletonPairs(S \ {v})

\* Every set the conversion builds from a collection of single values.
InputSets == UNION {to_interval_set(SingletonPairs(S)) : S \in SUBSET Bound}

Init ==
    /\ A = empty
    /\ B = empty
    /\ C = empty
    /\ ret = NoRet

Empty ==
    /\ Running
    /\ \E d \in Registers : Store(d, empty)

Singleton ==
    /\ Running
    /\ \E d \in Registers, x \in Bound : Store(d, singleton(x))

New ==
    /\ Running
    /\ \E d \in Registers, p \in Pairs : Store(d, new(p[1], p[2]))

Whole ==
    /\ Running
    /\ \E d \in Registers : Store(d, whole)

\* A is the set the caller builds from raw ranges.
ToIntervalSet ==
    /\ Running
    /\ \E v \in InputLists :
           \E r \in to_interval_set(v) : Store("A", r)

Extend ==
    /\ Running
    /\ \E v \in InputLists :
           \E r \in extend(A, [k \in 1..Len(v) |-> to_interval(v[k])]) : Store("A", r)

Union ==
    /\ Running
    /\ \E d \in Registers : Store(d, union(Reg(d), Other(d)))

Intersection ==
    /\ Running
    /\ \E d \in Registers : Store(d, intersection(Reg(d), Other(d)))

Complement ==
    /\ Running
    /\ \E d \in Registers : Store(d, complement(Reg(d)))

Difference ==
    /\ Running
    /\ \E d \in Registers : Store(d, difference(Reg(d), Other(d)))

SymmetricDifference ==
    /\ Running
    /\ \E d \in Registers : Store(d, symmetric_difference(Reg(d), Other(d)))

Eq ==
    /\ Running
    /\ Return("eq", <<"A", "B">>, eq(A, B))

ShrinkLeft ==
    /\ Running
    /\ \E d \in Registers, lb \in Bound : Store(d, shrink_left(Reg(d), lb))

ShrinkRight ==
    /\ Running
    /\ \E d \in Registers, ub \in Bound : Store(d, shrink_right(Reg(d), ub))

\* Set-set arithmetic whose per-pair results stay within the bound range.
Add ==
    /\ Running
    /\ \E d \in Registers :
           /\ in_range(pair_results(Reg(d), Other(d), "add"))
           /\ Store(d, add(Reg(d), Other(d)))

Sub ==
    /\ Running
    /\ \E d \in Registers :
           /\ in_range(pair_results(Reg(d), Other(d), "sub"))
           /\ Store(d, sub(Reg(d), Other(d)))

Mul ==
    /\ Running
    /\ \E d \in Registers :
           /\ in_range(pair_results(Reg(d), Other(d), "mul"))
           /\ Store(d, mul(Reg(d), Other(d)))

\* Set-scalar arithmetic whose per-interval results stay within the range.
AddBound ==
    /\ Running
    /\ \E d \in Registers, c \in Bound :
           /\ in_range(pair_results(Reg(d), singleton(c), "add"))
           /\ Store(d, add_bound(Reg(d), c))

SubBound ==
    /\ Running
    /\ \E d \in Registers, c \in Bound :
           /\ in_range(pair_results(Reg(d), singleton(c), "sub"))
           /\ Store(d, sub_bound(Reg(d), c))

MulBound ==
    /\ Running
    /\ \E d \in Registers, c \in Bound :
           /\ in_range(pair_results(Reg(d), singleton(c), "mul"))
           /\ Store(d, mul_bound(Reg(d), c))

\* Constructors, conversions, extend, set algebra and equality.
NextAlgebra ==
    \/ Empty
    \/ Singleton
    \/ New
    \/ Whole
    \/ ToIntervalSet
    \/ Extend
    \/ Union
    \/ Intersection
    \/ Complement
    \/ Difference
    \/ SymmetricDifference
    \/ Eq

\* Every public operation that returns a set.
Next ==
    \/ NextAlgebra
    \/ ShrinkLeft
    \/ ShrinkRight
    \/ Add
    \/ Sub
    \/ Mul
    \/ AddBound
    \/ SubBound
    \/ MulBound

Spec == Init /\ [][Next]_vars

SpecAlgebra == Init /\ [][NextAlgebra]_vars

(***************************************************************************)
(* One operation applied to any operands.                                  *)
(***************************************************************************)
InitOps ==
    /\ A \in InputSets
    /\ B \in InputSets
    /\ C = empty
    /\ ret = NoRet

CallUnion ==
    /\ ret.op = "none"
    /\ Return("union", <<"A", "B">>, union(A, B))

CallIntersection ==
    /\ ret.op = "none"
    /\ Return("intersection", <<"A", "B">>, intersection(A, B))

CallComplement ==
    /\ ret.op = "none"
    /\ Return("complement", <<"A">>, complement(A))

CallDifference ==
    /\ ret.op = "none"
    /\ Return("difference", <<"A", "B">>, difference(A, B))

CallSymmetricDifference ==
    /\ ret.op = "none"
    /\ Return("symmetric_difference", <<"A", "B">>, symmetric_difference(A, B))

CallIsSubset ==
    /\ ret.op = "none"
    /\ Return("is_subset", <<"A", "B">>, is_subset(A, B))

CallEq ==
    /\ ret.op = "none"
    /\ Return("eq", <<"A", "B">>, eq(A, B))

NextOps ==
    \/ CallUnion
    \/ CallIntersection
    \/ CallComplement
    \/ CallDifference
    \/ CallSymmetricDifference
    \/ CallIsSubset
    \/ CallEq

SpecOps == InitOps /\ [][NextOps]_vars

(***************************************************************************)
(* The subset relation over any three sets.                                *)
(***************************************************************************)
InitOrder ==
    /\ A \in InputSets
    /\ B \in InputSets
    /\ C \in InputSets
    /\ ret = NoRet

\* is_subset between two of the three sets, named in ret.args.
IsSubsetOf ==
    /\ ret.op = "none"
    /\ \E p \in {<<"A", "A">>, <<"A", "B">>, <<"B", "A">>, <<"B", "C">>, <<"A", "C">>} :
           LET set(n) == IF n = "A" THEN A ELSE IF n = "B" THEN B ELSE C
           IN Return("is_subset", p, is_subset(set(p[1]), set(p[2])))

NextOrder == IsSubsetOf

SpecOrder == InitOrder /\ [][NextOrder]_vars

(***************************************************************************)
(* One query applied to any operands.                                      *)
(***************************************************************************)
\* The arguments an Overlap<Optional<Bound>> call is given.
Optionals == {optional_empty} \cup {optional_singleton(v) : v \in Bound}

CallIsProperSubset ==
    /\ ret.op = "none"
    /\ Return("is_proper_subset", <<"A", "B">>, is_proper_subset(A, B))

CallContains ==
    /\ ret.op = "none"
    /\ \E v \in Bound : Return("contains", <<"A", v>>, contains(A, v))

CallOverlapBound ==
    /\ ret.op = "none"
    /\ \E v \in Bound : Return("overlap_bound", <<"A", v>>, overlap_bound(A, v))

CallBoundOverlap ==
    /\ ret.op = "none"
    /\ \E v \in Bound : Return("bound_overlap", <<"A", v>>, bound_overlap(v, A))

CallOverlapOptional ==
    /\ ret.op = "none"
    /\ \E o \in Optionals : Return("overlap_optional", <<"A", o>>, overlap_optional(A, o))

CallOverlap ==
    /\ ret.op = "none"
    /\ Return("overlap", <<"A", "B">>, overlap(A, B))

CallIsDisjoint ==
    /\ ret.op = "none"
    /\ Return("is_disjoint", <<"A", "B">>, is_disjoint(A, B))

CallEntail ==
    /\ ret.op = "none"
    /\ Return("entail", <<"A", "B">>, entail(A, B))

CallJoin ==
    /\ ret.op = "none"
    /\ Return("join", <<"A", "B">>, join(A, B))

CallMeet ==
    /\ ret.op = "none"
    /\ Return("meet", <<"A", "B">>, meet(A, B))

CallTop ==
    /\ ret.op = "none"
    /\ Return("top", <<>>, top)

CallBot ==
    /\ ret.op = "none"
    /\ Return("bot", <<>>, bot)

NextQueries ==
    \/ CallIsProperSubset
    \/ CallContains
    \/ CallOverlapBound
    \/ CallBoundOverlap
    \/ CallOverlapOptional
    \/ CallOverlap
    \/ CallIsDisjoint
    \/ CallEntail
    \/ CallJoin
    \/ CallMeet
    \/ CallTop
    \/ CallBot

SpecQueries == InitOps /\ [][NextQueries]_vars

(***************************************************************************)
(* Set-set arithmetic applied to any operands.                             *)
(***************************************************************************)
CallAdd ==
    /\ ret.op = "none"
    /\ in_range(pair_results(A, B, "add"))
    /\ Return("add", <<"A", "B">>, add(A, B))

CallSub ==
    /\ ret.op = "none"
    /\ in_range(pair_results(A, B, "sub"))
    /\ Return("sub", <<"A", "B">>, sub(A, B))

CallMul ==
    /\ ret.op = "none"
    /\ in_range(pair_results(A, B, "mul"))
    /\ Return("mul", <<"A", "B">>, mul(A, B))

NextArith ==
    \/ CallAdd
    \/ CallSub
    \/ CallMul

SpecArith == InitOps /\ [][NextArith]_vars

(***************************************************************************)
(* Conversions: raw ranges to a set, a set to its encoding and back, any   *)
(* encoding to a set.                                                      *)
(***************************************************************************)
InitConvert ==
    /\ A \in InputSets
    /\ B = empty
    /\ C = empty
    /\ ret = NoRet

\* What a deserializer may hand to the visitor: the none marker, or a
\* sequence of at most MaxLen encoded non-empty intervals in any order.
Encodings == {serialize_none} \cup {collect_seq(v) : v \in InputLists}

CallToIntervalSet ==
    /\ ret.op = "none"
    /\ \E v \in InputLists :
           \E r \in to_interval_set(v) : Return("to_interval_set", <<v>>, r)

CallSerialize ==
    /\ ret.op = "none"
    /\ Return("serialize", <<"A">>, serialize(A))

\* Decoding what serialize returned.
CallDeserialize ==
    /\ ret.op = "serialize"
    /\ \E r \in deserialize(ret.val) : Return("round_trip", <<ret.val>>, r)

CallDeserializeAny ==
    /\ ret.op = "none"
    /\ \E e \in Encodings :
           \E r \in deserialize(e) : Return("deserialize", <<e>>, r)

NextConvert ==
    \/ CallToIntervalSet
    \/ CallSerialize
    \/ CallDeserialize
    \/ CallDeserializeAny

SpecConvert == InitConvert /\ [][NextConvert]_vars

(***************************************************************************)
(* extend called up to MaxExtends times on any set.  B keeps the value the *)
(* receiver A started with, C the value it had before the last call;       *)
(* ret.val counts the calls and collects every value ever added.           *)
(***************************************************************************)
InitExtend ==
    /\ A \in InputSets
    /\ B = A
    /\ C = empty
    /\ ret = NoRet

\* The values a collection of (lower, upper) pairs covers.
Added(v) == UNION {v[k][1] .. v[k][2] : k \in 1..Len(v)}

CallExtend ==
    LET calls == IF ret.op = "extend" THEN ret.val.calls ELSE 0
        added == IF ret.op = "extend" THEN ret.val.added ELSE {}
    IN /\ A.ok
       /\ calls < MaxExtends
       /\ \E v \in InputLists :
              \E r \in extend(A, [k \in 1..Len(v) |-> to_interval(v[k])]) :
                  /\ A' = r
                  /\ C' = A
                  /\ ret' = [op   |-> "extend",
                             args |-> <<v>>,
                             val  |-> [calls |-> calls + 1,
                                       added |-> added \cup Added(v)]]
                  /\ UNCHANGED B

NextExtend == CallExtend

SpecExtend == InitExtend /\ [][NextExtend]_vars

(***************************************************************************)
(* Set-scalar arithmetic applied to any set and any constant for which no  *)
(* computed bound leaves the bound range.                                  *)
(***************************************************************************)
CallAddBound ==
    /\ ret.op = "none"
    /\ \E c \in Bound :
           /\ in_range(pair_results(A, singleton(c), "add"))
           /\ Return("add_bound", <<"A", c>>, add_bound(A, c))

CallSubBound ==
    /\ ret.op = "none"
    /\ \E c \in Bound :
           /\ in_range(pair_results(A, singleton(c), "sub"))
           /\ Return("sub_bound", <<"A", c>>, sub_bound(A, c))

CallMulBound ==
    /\ ret.op = "none"
    /\ \E c \in Bound :
           /\ in_range(pair_results(A, singleton(c), "mul"))
           /\ Return("mul_bound", <<"A", c>>, mul_bound(A, c))

NextScalar ==
    \/ CallAddBound
    \/ CallSubBound
    \/ CallMulBound

SpecScalar == InitConvert /\ [][NextScalar]_vars

(***************************************************************************)
(* The shrink operators applied to any set and any bound.                  *)
(***************************************************************************)
CallShrinkLeft ==
    /\ ret.op = "none"
    /\ \E b \in Bound : Return("shrink_left", <<"A", b>>, shrink_left(A, b))

CallShrinkRight ==
    /\ ret.op = "none"
    /\ \E b \in Bound : Return("shrink_right", <<"A", b>>, shrink_right(A, b))

NextShrink ==
    \/ CallShrinkLeft
    \/ CallShrinkRight

SpecShrink == InitConvert /\ [][NextShrink]_vars

(***************************************************************************)
(* One public operation applied to any operands, the two that take         *)
(* &mut self among them: extend, and a write through one of the            *)
(* &mut Interval references iter_mut hands out.                            *)
(***************************************************************************)
\* Extend::extend on A; *self is assigned the union.
CallExtendOnce ==
    /\ ret.op = "none"
    /\ \E v \in InputLists :
           \E r \in extend(A, [k \in 1..Len(v) |-> to_interval(v[k])]) :
               /\ A' = r
               /\ ret' = [op |-> "extend", args |-> <<v>>, val |-> FALSE]
               /\ UNCHANGED <<B, C>>

\* iter_mut (and IntoIterator for &mut IntervalSet) is self.intervals.iter_mut():
\* a caller assigns an interval through the reference to stored interval k;
\* nothing else of the set is touched.
iter_mut_write(self, k, x) == [self EXCEPT !.intervals[k + 1] = x]

CallIterMut ==
    /\ ret.op = "none"
    /\ \E k \in 0..(interval_count(A) - 1) : \E p \in Pairs :
           /\ A' = iter_mut_write(A, k, to_interval(p))
           /\ ret' = [op |-> "iter_mut", args |-> <<k, p>>, val |-> FALSE]
           /\ UNCHANGED <<B, C>>

NextFrame ==
    \/ NextOps
    \/ NextQueries
    \/ NextArith
    \/ NextScalar
    \/ NextShrink
    \/ CallExtendOnce
    \/ CallIterMut

SpecFrame == InitOps /\ [][NextFrame]_vars

(***************************************************************************)
(* The locator applied to any set and value: find_interval, and            *)
(* find_interval_between seeded with any window its assertions allow.      *)
(***************************************************************************)
CallFindInterval ==
    /\ ret.op = "none"
    /\ \E v \in Bound : Return("find_interval", <<"A", v>>, find_interval(A, v))

CallFindIntervalBetween ==
    /\ ret.op = "none"
    /\ \E v \in Bound : \E left, right \in 0..(interval_count(A) - 1) :
           /\ find_interval_between_asserts(A, v, left, right)
           /\ Return("find_interval_between", <<"A", v, left, right>>,
                     find_interval_between(A, v, left, right))

NextLocate ==
    \/ CallFindInterval
    \/ CallFindIntervalBetween

SpecLocate == InitConvert /\ [][NextLocate]_vars

(***************************************************************************)
(* The append-only store mutators called on any canonical store with any   *)
(* non-empty intervals, in order or not, in a build with debug assertions  *)
(* and in one without.  C keeps the store as it was before the call.       *)
(***************************************************************************)
CallJoinOrPushDebug ==
    /\ ret.op = "none"
    /\ \E p \in Pairs :
           LET o == join_or_push_debug(A, to_interval(p))
           IN /\ A' = o.store
              /\ C' = A
              /\ ret' = [op |-> "join_or_push_debug", args |-> <<to_interval(p)>>,
                         val |-> [panic |-> o.panic, at |-> o.at]]
              /\ UNCHANGED B

CallExtendAtBackDebug ==
    /\ ret.op = "none"
    /\ \E v \in InputLists :
           LET o == extend_at_back_debug(A, [k \in 1..Len(v) |-> to_interval(v[k])])
           IN /\ A' = o.store
              /\ C' = A
              /\ ret' = [op |-> "extend_at_back_debug",
                         args |-> <<[k \in 1..Len(v) |-> to_interval(v[k])]>>,
                         val |-> [panic |-> o.panic, at |-> o.at]]
              /\ UNCHANGED B

CallJoinOrPushRelease ==
    /\ ret.op = "none"
    /\ \E p \in Pairs :
           /\ A' = join_or_push(A, to_interval(p))
           /\ C' = A
           /\ ret' = [op |-> "join_or_push_release", args |-> <<to_interval(p)>>,
                      val |-> FALSE]
           /\ UNCHANGED B

CallExtendAtBackRelease ==
    /\ ret.op = "none"
    /\ \E v \in InputLists :
           /\ A' = extend_at_back(A, [k \in 1..Len(v) |-> to_interval(v[k])])
           /\ C' = A
           /\ ret' = [op |-> "extend_at_back_release",
                      args |-> <<[k \in 1..Len(v) |-> to_interval(v[k])]>>,
                      val |-> FALSE]
           /\ UNCHANGED B

NextStore ==
    \/ CallJoinOrPushDebug
    \/ CallExtendAtBackDebug
    \/ CallJoinOrPushRelease
    \/ CallExtendAtBackRelease

SpecStore == InitConvert /\ [][NextStore]_vars

(***************************************************************************)
(* One operation of the set algebra, a shrink or the subset test applied   *)
(* to any operands.                                                        *)
(***************************************************************************)
NextAsserts ==
    \/ NextOps
    \/ NextShrink

SpecAsserts == InitOps /\ [][NextAsserts]_vars

(***************************************************************************)
(* The loops of the engine, one iteration per step.  ret holds the         *)
(* position of the call in progress: op names the loop, args the two       *)
(* cursors (merge loops) or the value and the window (binary search), val  *)
(* the iterations made; C is the result being built.  A running call       *)
(* keeps taking its next step.                                             *)
(***************************************************************************)
MergeLoops == {"union", "intersection", "overlap"}

Finished == {"union_done", "intersection_done", "overlap_done", "find_done"}

\* Both cursors show an interval.
BothPeek == peek_is_some(A.intervals, ret.args[1]) /\ peek_is_some(B.intervals, ret.args[2])

\* union up to its while loop: the two iterators and from_lower_iterator.
StartUnion ==
    /\ ret.op = "none"
    /\ IF ~peek_is_some(A.intervals, 0) \/ ~peek_is_some(B.intervals, 0)
       THEN /\ C' = empty
            /\ ret' = [op |-> "union", args |-> <<0, 0>>, val |-> 0]
       ELSE LET who == advance_lower(A.intervals, 0, B.intervals, 0)
            IN /\ C' = from_interval(IF who THEN At(A.intervals, 0) ELSE At(B.intervals, 0))
               /\ ret' = [op |-> "union", args |-> advance_one(0, 0, who), val |-> 0]
    /\ UNCHANGED <<A, B>>

\* One iteration of the while loop of union.
UnionIterate ==
    /\ ret.op = "union"
    /\ BothPeek
    /\ LET a   == ret.args[1]
           b   == ret.args[2]
           who == advance_lower(A.intervals, a, B.intervals, b)
       IN /\ C' = join_or_push(C, IF who THEN At(A.intervals, a) ELSE At(B.intervals, b))
          /\ ret' = [ret EXCEPT !.args = advance_one(a, b, who), !.val = @ + 1]
    /\ UNCHANGED <<A, B>>

\* The while loop of union is left for the two extend_at_back calls.
UnionLeaveLoop ==
    /\ ret.op = "union"
    /\ ~BothPeek
    /\ ret' = [ret EXCEPT !.op = "union_extend_at_back"]
    /\ UNCHANGED <<A, B, C>>

\* One iteration of the for loop of extend_at_back, over what the first
\* cursor has left and then over what the second has left.
ExtendAtBackIterate ==
    /\ ret.op = "union_extend_at_back"
    /\ LET a == ret.args[1]
           b == ret.args[2]
       IN /\ peek_is_some(A.intervals, a) \/ peek_is_some(B.intervals, b)
          /\ C' = join_or_push(C, IF peek_is_some(A.intervals, a)
                                  THEN At(A.intervals, a) ELSE At(B.intervals, b))
          /\ ret' = [ret EXCEPT !.args = advance_one(a, b, peek_is_some(A.intervals, a))]
    /\ UNCHANGED <<A, B>>

\* Both cursors are drained: union returns res.
UnionFinish ==
    /\ ret.op = "union_extend_at_back"
    /\ ~peek_is_some(A.intervals, ret.args[1])
    /\ ~peek_is_some(B.intervals, ret.args[2])
    /\ ret' = [ret EXCEPT !.op = "union_done"]
    /\ UNCHANGED <<A, B, C>>

StartIntersection ==
    /\ ret.op = "none"
    /\ C' = empty
    /\ ret' = [op |-> "intersection", args |-> <<0, 0>>, val |-> 0]
    /\ UNCHANGED <<A, B>>

StartOverlap ==
    /\ ret.op = "none"
    /\ ret' = [op |-> "overlap", args |-> <<0, 0>>, val |-> 0]
    /\ UNCHANGED <<A, B, C>>

\* One iteration of the while loop of advance_to_first_overlapping that does
\* not return: the intervals peeked do not overlap.
AdvanceToFirstOverlappingIterate ==
    /\ ret.op \in {"intersection", "overlap"}
    /\ BothPeek
    /\ LET a == ret.args[1]
           b == ret.args[2]
       IN /\ ~interval_overlap(At(A.intervals, a), At(B.intervals, b))
          /\ ret' = [ret EXCEPT
                        !.args = advance_one(a, b, advance_lower(A.intervals, a, B.intervals, b)),
                        !.val = @ + 1]
    /\ UNCHANGED <<A, B, C>>

\* advance_to_first_overlapping returned true: the body of the while loop of
\* intersection.
IntersectionIterate ==
    /\ ret.op = "intersection"
    /\ BothPeek
    /\ LET a == ret.args[1]
           b == ret.args[2]
       IN /\ interval_overlap(At(A.intervals, a), At(B.intervals, b))
          /\ C' = push(C, interval_intersection(At(A.intervals, a), At(B.intervals, b)))
          /\ ret' = [ret EXCEPT
                        !.args = advance_one(a, b, advance_lub(A.intervals, a, B.intervals, b)),
                        !.val = @ + 1]
    /\ UNCHANGED <<A, B>>

\* advance_to_first_overlapping returned false: intersection returns res.
IntersectionFinish ==
    /\ ret.op = "intersection"
    /\ ~BothPeek
    /\ ret' = [ret EXCEPT !.op = "intersection_done"]
    /\ UNCHANGED <<A, B, C>>

\* advance_to_first_overlapping returns to overlap.
OverlapFinish ==
    /\ ret.op = "overlap"
    /\ IF BothPeek
       THEN interval_overlap(At(A.intervals, ret.args[1]), At(B.intervals, ret.args[2]))
       ELSE TRUE
    /\ ret' = [ret EXCEPT !.op = "overlap_done"]
    /\ UNCHANGED <<A, B, C>>

\* find_interval_between entered with a window its assertions allow.
StartFind ==
    /\ ret.op = "none"
    /\ \E v \in Bound : \E left, right \in 0..(interval_count(A) - 1) :
           /\ find_interval_between_asserts(A, v, left, right)
           /\ ret' = [op |-> "find_interval_between", args |-> <<v, left, right>>, val |-> 0]
    /\ UNCHANGED <<A, B, C>>

\* One iteration of the while loop of find_interval_between.
FindIterate ==
    /\ ret.op = "find_interval_between"
    /\ ret.args[2] <= ret.args[3]
    /\ LET it == find_interval_between_iteration(A, ret.args[1], ret.args[2], ret.args[3])
       IN ret' = [op   |-> CASE it.kind = "continue" -> "find_interval_between"
                             [] it.kind = "return"   -> "find_done"
                             [] it.kind = "panic"    -> "find_panicked",
                  args |-> <<ret.args[1], it.left, it.right>>,
                  val  |-> ret.val + 1]
    /\ UNCHANGED <<A, B, C>>

\* The window is empty: (right, left) is returned.
FindFinish ==
    /\ ret.op = "find_interval_between"
    /\ ret.args[2] > ret.args[3]
    /\ ret' = [ret EXCEPT !.op = "find_done", !.args = <<ret.args[1], ret.args[3], ret.args[2]>>]
    /\ UNCHANGED <<A, B, C>>

NextLoops ==
    \/ StartUnion
    \/ UnionIterate
    \/ UnionLeaveLoop
    \/ ExtendAtBackIterate
    \/ UnionFinish
    \/ StartIntersection
    \/ StartOverlap
    \/ AdvanceToFirstOverlappingIterate
    \/ IntersectionIterate
    \/ IntersectionFinish
    \/ OverlapFinish
    \/ StartFind
    \/ FindIterate
    \/ FindFinish

\* A call in progress takes its next step: at most one step of a call is
\* enabled at a time, so each is taken when it stays enabled.
FairLoops ==
    /\ WF_vars(StartUnion)
    /\ WF_vars(UnionIterate)
    /\ WF_vars(UnionLeaveLoop)
    /\ WF_vars(ExtendAtBackIterate)
    /\ WF_vars(UnionFinish)
    /\ WF_vars(StartIntersection)
    /\ WF_vars(StartOverlap)
    /\ WF_vars(AdvanceToFirstOverlappingIterate)
    /\ WF_vars(IntersectionIterate)
    /\ WF_vars(IntersectionFinish)
    /\ WF_vars(OverlapFinish)
    /\ WF_vars(StartFind)
    /\ WF_vars(FindIterate)
    /\ WF_vars(FindFinish)

SpecLoops == InitOps /\ [][NextLoops]_vars /\ FairLoops

(***************************************************************************)
(* What a set means: the values its stored intervals cover.                *)
(***************************************************************************)
Values(s) == UNION {s.intervals[k].lb .. s.intervals[k].ub : k \in 1..Len(s.intervals)}

\* No empty interval, strictly ascending, consecutive intervals separated by
\* at least one value.
Canonical(s) ==
    /\ \A k \in 1..Len(s.intervals) : s.intervals[k].lb <= s.intervals[k].ub
    /\ \A k \in 1..(Len(s.intervals) - 1) :
           /\ s.intervals[k].lb < s.intervals[k + 1].lb
           /\ s.intervals[k + 1].lb > s.intervals[k].ub + 1

RECURSIVE SumOfSizes(_)
SumOfSizes(v) == IF v = <<>> THEN 0 ELSE (Head(v).ub - Head(v).lb + 1) + SumOfSizes(Tail(v))

(***************************************************************************)
(* Canonical form.                                                         *)
(***************************************************************************)
\* C1: after any sequence of public constructors and operations on in-range
\* inputs, every set the caller holds has no empty interval, is strictly
\* ascending by lower bound and has consecutive intervals separated by at
\* least one value.
C1_CanonicalAfterAnyOperation == Canonical(A) /\ Canonical(B)

C3_EqIffSameValues ==
    ret.op = "eq" => (ret.val <=> Values(A) = Values(B))

\* A == B returned true for two sets of two intervals each.
C3_Witness ==
    /\ ret.op = "eq"
    /\ ret.val
    /\ Len(A.intervals) = 2
    /\ Len(B.intervals) = 2

(***************************************************************************)
(* Set algebra.                                                            *)
(***************************************************************************)
\* C4: A.union(B) is the canonical set containing exactly the values that
\* are in A or in B; union is commutative, has the empty set as identity,
\* and A.union(A) == A.
C4_UnionIsExactUnion ==
    ret.op = "union" =>
        /\ Canonical(ret.val)
        /\ Values(ret.val) = Values(A) \cup Values(B)
        /\ eq(ret.val, union(B, A))
        /\ is_empty(B) => eq(ret.val, A)
        /\ is_empty(A) => eq(ret.val, B)
        /\ eq(A, B) => eq(ret.val, A)

\* The union of two intervals with the single value between them is one
\* interval: the gap is filled exactly.
C4_Witness ==
    /\ ret.op = "union"
    /\ A.intervals = <<interval_new(MinValue, -1), interval_new(1, MaxValue)>>
    /\ B.intervals = <<interval_new(0, 0)>>
    /\ ret.val.intervals = <<interval_new(MinValue, MaxValue)>>

\* C5: A.intersection(B) is the canonical set containing exactly the values
\* that are in both A and B; intersection is commutative and the
\* intersection with the empty set is empty.
C5_IntersectionIsExactIntersection ==
    ret.op = "intersection" =>
        /\ Canonical(ret.val)
        /\ Values(ret.val) = Values(A) \cap Values(B)
        /\ eq(ret.val, intersection(B, A))
        /\ is_empty(A) \/ is_empty(B) => eq(ret.val, empty)

\* One interval of B overlaps both intervals of A: two overlaps come out.
C5_Witness ==
    /\ ret.op = "intersection"
    /\ A.intervals = <<interval_new(MinValue, 0), interval_new(MaxValue, MaxValue)>>
    /\ B.intervals = <<interval_new(-1, MaxValue)>>
    /\ ret.val.intervals = <<interval_new(-1, 0), interval_new(MaxValue, MaxValue)>>

\* C6: for every canonical set A within [min, max], the complement of the
\* complement of A is A; the complement of the empty set is whole() and the
\* complement of whole() is the empty set; also when A starts at min and
\* ends at max.
C6_ComplementIsInvolution ==
    ret.op = "complement" =>
        /\ eq(complement(ret.val), A)
        /\ Canonical(ret.val)
        /\ Values(ret.val) = Bound \ Values(A)
        /\ is_empty(A) => eq(ret.val, whole)
        /\ eq(A, whole) => eq(ret.val, empty)

\* A starts at min and ends at max; its complement is the gap between.
C6_Witness ==
    /\ ret.op = "complement"
    /\ A.intervals = <<interval_new(MinValue, MinValue), interval_new(MaxValue, MaxValue)>>
    /\ ret.val.intervals = <<interval_new(MinValue + 1, MaxValue - 1)>>
    /\ eq(complement(ret.val), A)

\* C7: A.difference(B) == A.intersection(B.complement()), and it is the
\* canonical set containing exactly the values of A that are not in B; so
\* A.difference(empty) == A and A.difference(A) is empty.
C7_DifferenceIsExactDifference ==
    ret.op = "difference" =>
        /\ eq(ret.val, intersection(A, complement(B)))
        /\ Canonical(ret.val)
        /\ Values(ret.val) = Values(A) \ Values(B)
        /\ is_empty(B) => eq(ret.val, A)
        /\ eq(A, B) => is_empty(ret.val)

\* Removing a value inside an interval splits it; the difference the other
\* way round is another set.
C7_Witness ==
    /\ ret.op = "difference"
    /\ A.intervals = <<interval_new(MinValue, MaxValue)>>
    /\ B.intervals = <<interval_new(0, 0)>>
    /\ ret.val.intervals = <<interval_new(MinValue, -1), interval_new(1, MaxValue)>>
    /\ ~eq(ret.val, difference(B, A))

\* C8: A.symmetric_difference(B) equals the union of A.difference(B) and
\* B.difference(A), equals B.symmetric_difference(A), and contains exactly
\* the values that are in exactly one of A and B.
C8_SymmetricDifferenceIsExact ==
    ret.op = "symmetric_difference" =>
        /\ eq(ret.val, union(difference(A, B), difference(B, A)))
        /\ eq(ret.val, symmetric_difference(B, A))
        /\ Canonical(ret.val)
        /\ Values(ret.val) = (Values(A) \ Values(B)) \cup (Values(B) \ Values(A))

\* Two intervals sharing one value: the shared value alone is dropped.
C8_Witness ==
    /\ ret.op = "symmetric_difference"
    /\ A.intervals = <<interval_new(MinValue, 0)>>
    /\ B.intervals = <<interval_new(0, MaxValue)>>
    /\ ret.val.intervals = <<interval_new(MinValue, -1), interval_new(1, MaxValue)>>

(***************************************************************************)
(* Order relations.                                                        *)
(***************************************************************************)
\* C9: A.is_subset(B) returns true if and only if every value of A is a
\* value of B: the fast-fail checks never reject a subset, and the walk
\* never accepts an interval in a gap of B, spanning a gap of B or only
\* partially contained in an interval of B.
C9_IsSubsetIffValuesIncluded ==
    ret.op = "is_subset" => (ret.val <=> Values(A) \subseteq Values(B))

\* Each of the two intervals of A lies in another interval of B, the second
\* found with the left search bound the first one left.
C9_Witness ==
    /\ ret.op = "is_subset"
    /\ ret.val
    /\ A.intervals = <<interval_new(MinValue, MinValue), interval_new(1, 1)>>
    /\ B.intervals = <<interval_new(MinValue, MinValue + 1), interval_new(1, MaxValue)>>

\* C10: is_subset is a partial order: reflexive, transitive, antisymmetric
\* up to ==, and the empty set is a subset of every set, itself included.
C10_IsSubsetIsPartialOrder ==
    ret.op = "is_subset" =>
        /\ ret.args = <<"A", "A">> => ret.val
        /\ ret.args = <<"A", "C">> /\ is_subset(A, B) /\ is_subset(B, C) => ret.val
        /\ ret.args = <<"A", "B">> /\ ret.val /\ is_subset(B, A) => eq(A, B)
        /\ ret.args[1] = "A" /\ is_empty(A) => ret.val

\* A strict chain A < B < C of sets with gaps, and A.is_subset(C) returned
\* true.
C10_Witness ==
    /\ ret.op = "is_subset"
    /\ ret.args = <<"A", "C">>
    /\ ret.val
    /\ is_subset(A, B) /\ ~eq(A, B)
    /\ is_subset(B, C) /\ ~eq(B, C)
    /\ Len(A.intervals) = 2
    /\ Len(C.intervals) = 2

(***************************************************************************)
(* Queries.                                                                *)
(***************************************************************************)
\* C11: A.is_proper_subset(B) is true exactly when A.is_subset(B) and A has
\* strictly fewer values than B, i.e. exactly when A is a subset of B and
\* A != B; the empty set is a proper subset of every set except itself.
C11_ProperSubsetIsSubsetAndSmaller ==
    ret.op = "is_proper_subset" =>
        /\ ret.val <=> (is_subset(A, B) /\ Cardinality(Values(A)) < Cardinality(Values(B)))
        /\ ret.val <=> (is_subset(A, B) /\ ~eq(A, B))
        /\ ret.val <=> (Values(A) \subseteq Values(B) /\ Values(A) # Values(B))
        /\ is_empty(A) => (ret.val <=> ~is_empty(B))

\* A set of two intervals is a proper subset of a larger set of two intervals.
C11_Witness ==
    /\ ret.op = "is_proper_subset"
    /\ ret.val
    /\ A.intervals = <<interval_new(MinValue, MinValue), interval_new(1, 1)>>
    /\ B.intervals = <<interval_new(MinValue, MinValue + 1), interval_new(1, MaxValue)>>

\* C12: S.contains(v), S.overlap(v), v.overlap(S) and
\* S.overlap(Optional::singleton(v)) return the same boolean, true exactly
\* when v lies in a stored interval; S.overlap of an empty Optional is false.
C12_ContainsAndOverlapValueAgree ==
    /\ ret.op \in {"contains", "overlap_bound", "bound_overlap"} =>
           LET v == ret.args[2]
           IN /\ ret.val <=> (v \in Values(A))
              /\ ret.val <=> contains(A, v)
              /\ ret.val <=> overlap_bound(A, v)
              /\ ret.val <=> bound_overlap(v, A)
              /\ ret.val <=> overlap_optional(A, optional_singleton(v))
              /\ is_empty(A) => ~ret.val
    /\ ret.op = "overlap_optional" =>
           IF ret.args[2] = optional_empty THEN ~ret.val
           ELSE LET v == ret.args[2][1]
                IN /\ ret.val <=> (v \in Values(A))
                   /\ ret.val <=> contains(A, v)

\* A value in the gap of a set of two intervals does not overlap it.
C12_Witness ==
    /\ ret.op = "overlap_bound"
    /\ A.intervals = <<interval_new(MinValue, -1), interval_new(1, MaxValue)>>
    /\ ret.args[2] = 0
    /\ ~ret.val

\* C13: A.overlap(B) is true if and only if A and B share a value, i.e.
\* A.intersection(B) is non-empty; A.overlap(B) == B.overlap(A);
\* A.is_disjoint(B) == !A.overlap(B); overlap is false when a set is empty.
C13_OverlapIffSharedValue ==
    /\ ret.op = "overlap" =>
           /\ ret.val <=> (Values(A) \cap Values(B) # {})
           /\ ret.val <=> ~is_empty(intersection(A, B))
           /\ ret.val <=> overlap(B, A)
           /\ is_empty(A) \/ is_empty(B) => ~ret.val
    /\ ret.op = "is_disjoint" =>
           /\ ret.val <=> ~overlap(A, B)
           /\ ret.val <=> (Values(A) \cap Values(B) = {})

\* The sets overlap in their last intervals only.
C13_Witness ==
    /\ ret.op = "overlap"
    /\ ret.val
    /\ A.intervals = <<interval_new(MinValue, MinValue), interval_new(1, MaxValue)>>
    /\ B.intervals = <<interval_new(-1, -1), interval_new(MaxValue, MaxValue)>>

\* C14: A.entail(B) is True exactly when A is a subset of B, False exactly
\* when A is not a subset of B but B is a subset of A, and Unknown exactly
\* when neither is a subset of the other.
C14_EntailIsThreeValuedSubset ==
    ret.op = "entail" =>
        LET ab == Values(A) \subseteq Values(B)
            ba == Values(B) \subseteq Values(A)
        IN /\ ret.val = "True" <=> ab
           /\ ret.val = "False" <=> (~ab /\ ba)
           /\ ret.val = "Unknown" <=> (~ab /\ ~ba)
           /\ eq(A, B) \/ is_empty(A) => ret.val = "True"

\* Two sets of the same size, neither a subset of the other.
C14_Witness ==
    /\ ret.op = "entail"
    /\ ret.val = "Unknown"
    /\ A.intervals = <<interval_new(MinValue, MinValue), interval_new(0, 1)>>
    /\ B.intervals = <<interval_new(MinValue, -1), interval_new(1, 1)>>

\* C15: join(a, b) equals a.intersection(b), meet(a, b) equals a.union(b),
\* top() is the empty set and bot() is whole(); hence join(a, top()) ==
\* top(), meet(a, top()) == a, join(a, bot()) == a, meet(a, bot()) == bot().
C15_LatticeIsReversedInclusion ==
    /\ ret.op = "join" =>
           /\ eq(ret.val, intersection(A, B))
           /\ Values(ret.val) = Values(A) \cap Values(B)
           /\ eq(B, top) => eq(ret.val, top)
           /\ eq(B, bot) => eq(ret.val, A)
    /\ ret.op = "meet" =>
           /\ eq(ret.val, union(A, B))
           /\ Values(ret.val) = Values(A) \cup Values(B)
           /\ eq(B, top) => eq(ret.val, A)
           /\ eq(B, bot) => eq(ret.val, bot)
    /\ ret.op = "top" => eq(ret.val, empty) /\ Values(ret.val) = {}
    /\ ret.op = "bot" => eq(ret.val, whole) /\ Values(ret.val) = Bound

\* The join of a set of two intervals with bot() is the set itself.
C15_Witness ==
    /\ ret.op = "join"
    /\ Len(A.intervals) = 2
    /\ eq(B, bot)
    /\ eq(ret.val, A)
    /\ ~eq(ret.val, meet(A, B))

(***************************************************************************)
(* Conversions.                                                            *)
(***************************************************************************)
\* Every order a collection can be given in.
Reorderings(v) ==
    LET n == Len(v)
    IN {[k \in 1..n |-> v[p[k]]] :
           p \in {q \in [1..n -> 1..n] : \A i, j \in 1..n : i # j => q[i] # q[j]}}

\* C16: for any canonical set S and any collection xs of non-empty
\* intervals in any order, S.extend(xs) completes without an assertion
\* failure and leaves S equal to the canonical set of S's previous values
\* plus the values of xs; the result is the same for every permutation of
\* xs, and after any sequence of extend calls S contains exactly the union
\* of everything ever added.
C16_ExtendAddsExactlyTheValues ==
    ret.op = "extend" =>
        /\ A.ok
        /\ Canonical(A)
        /\ size(A) = Cardinality(Values(A))
        /\ Values(A) = Values(C) \cup Added(ret.args[1])
        /\ Values(A) = Values(B) \cup ret.val.added
        /\ \A w \in Reorderings(ret.args[1]) :
               \A r \in extend(C, [k \in 1..Len(w) |-> to_interval(w[k])]) :
                   r.ok /\ eq(r, A)

\* The second extend call is given two overlapping ranges in descending
\* order that lie between the two intervals of S and touch both.
C16_Witness ==
    /\ ret.op = "extend"
    /\ ret.val.calls = 2
    /\ B.intervals = <<interval_new(MinValue, MinValue)>>
    /\ C.intervals = <<interval_new(MinValue, MinValue), interval_new(MaxValue, MaxValue)>>
    /\ ret.args[1] = <<<<0, MaxValue - 1>>, <<MinValue + 1, 0>>>>
    /\ A.intervals = <<interval_new(MinValue, MaxValue)>>

\* C17: converting any finite sequence of (lower, upper) pairs with
\* lower <= upper, in any order and with any overlaps, adjacency or
\* duplicate lower bounds, via to_interval_set never triggers an assertion
\* failure and yields the canonical set containing exactly the union of the
\* given ranges; the empty sequence yields the empty set.
C17_ToIntervalSetIsExactUnion ==
    ret.op = "to_interval_set" =>
        /\ ret.val.ok
        /\ Canonical(ret.val)
        /\ Values(ret.val) = Added(ret.args[1])
        /\ size(ret.val) = Cardinality(Values(ret.val))
        /\ ret.args[1] = <<>> => eq(ret.val, empty)

\* Two overlapping ranges given in descending order become one interval.
C17_Witness ==
    /\ ret.op = "to_interval_set"
    /\ ret.args[1] = <<<<0, MaxValue>>, <<-1, 1>>>>
    /\ ret.val.intervals = <<interval_new(-1, MaxValue)>>

\* C18: the empty set encodes as the none marker and every non-empty
\* canonical set as the sequence of its (lower, upper) pairs, one per
\* interval in ascending order; decoding the encoding of S yields a set
\* equal to S, with the same intervals and the same cached size.
C18_SerializationRoundTrips ==
    /\ ret.op = "serialize" =>
           IF A.intervals = <<>>
           THEN ret.val = serialize_none
           ELSE /\ ret.val.kind = "seq"
                /\ ret.val.items =
                       [k \in 1..Len(A.intervals) |-> <<A.intervals[k].lb, A.intervals[k].ub>>]
    /\ ret.op = "round_trip" =>
           /\ ret.val.ok
           /\ eq(ret.val, A)
           /\ ret.val.intervals = A.intervals
           /\ size(ret.val) = size(A)

\* A set of three intervals came back from its encoding.
C18_Witness ==
    /\ ret.op = "round_trip"
    /\ Len(A.intervals) = 3
    /\ ret.args[1].kind = "seq"
    /\ Len(ret.args[1].items) = 3
    /\ eq(ret.val, A)

\* C19: the none marker and an empty sequence both decode to the empty set,
\* and a decoded sequence of non-empty intervals that is not canonical
\* decodes without error to the canonical set containing exactly the union
\* of the decoded intervals.
C19_DeserializationNormalizes ==
    ret.op = "deserialize" =>
        LET encoding == ret.args[1]
        IN /\ ret.val.ok
           /\ Canonical(ret.val)
           /\ Values(ret.val) = Added(encoding.items)
           /\ size(ret.val) = Cardinality(Values(ret.val))
           /\ encoding.items = <<>> => eq(ret.val, empty)

\* Two touching intervals decoded in descending order become one interval.
C19_Witness ==
    /\ ret.op = "deserialize"
    /\ ret.args[1] = collect_seq(<<<<1, MaxValue>>, <<-1, 0>>>>)
    /\ ret.val.intervals = <<interval_new(-1, MaxValue)>>

(***************************************************************************)
(* Set-set arithmetic.                                                     *)
(***************************************************************************)
\* C20: with results within the bound range, A + B contains exactly
\* {a + b}, A - B exactly {a - b}, A * B is the union of the per-pair
\* product hulls and so contains every product a * b; each is the canonical
\* union of the per-pair results; the result is empty if and only if A or B
\* is empty, and A + B == B + A, A * B == B * A.
C20_SetSetArithmeticIsUnionOverPairs ==
    ret.op \in {"add", "sub", "mul"} =>
        /\ ret.val.ok
        /\ Canonical(ret.val)
        /\ size(ret.val) = Cardinality(Values(ret.val))
        /\ Values(ret.val) =
               UNION {r.lb .. r.ub : r \in pair_results(A, B, ret.op)}
        /\ is_empty(ret.val) <=> (is_empty(A) \/ is_empty(B))
        /\ ret.op = "add" =>
               /\ Values(ret.val) = {a + b : a \in Values(A), b \in Values(B)}
               /\ eq(ret.val, add(B, A))
        /\ ret.op = "sub" =>
               Values(ret.val) = {a - b : a \in Values(A), b \in Values(B)}
        /\ ret.op = "mul" =>
               /\ {a * b : a \in Values(A), b \in Values(B)} \subseteq Values(ret.val)
               /\ eq(ret.val, mul(B, A))

\* The per-pair products of a set of two intervals and a negative interval
\* come in descending order; their union is canonical.
C20_Witness ==
    /\ ret.op = "mul"
    /\ A.intervals = <<interval_new(-1, -1), interval_new(1, 1)>>
    /\ B.intervals = <<interval_new(MinValue, -1)>>
    /\ ret.val.intervals = <<interval_new(MinValue, -1), interval_new(1, MaxValue)>>

(***************************************************************************)
(* Set-scalar arithmetic.                                                  *)
(***************************************************************************)
\* C21: for a canonical set S and a constant c such that no shifted bound
\* leaves the bound range, S + c and S - c have as many intervals as S and
\* the cached size of S, are canonical without any assertion failing, hold
\* exactly the values x + c (x - c) for x in S, and equal the set-set
\* results S + {c} and S - {c}; the empty set stays empty.
C21_ScalarShiftKeepsShape ==
    ret.op \in {"add_bound", "sub_bound"} =>
        LET c        == ret.args[2]
            shift(x) == IF ret.op = "add_bound" THEN x + c ELSE x - c
            set_set  == IF ret.op = "add_bound" THEN add(A, singleton(c))
                        ELSE sub(A, singleton(c))
        IN /\ ret.val.ok
           /\ interval_count(ret.val) = interval_count(A)
           /\ size(ret.val) = size(A)
           /\ Canonical(ret.val)
           /\ Values(ret.val) = {shift(x) : x \in Values(A)}
           /\ eq(ret.val, set_set)
           /\ is_empty(A) => ret.val = empty

\* A set of two intervals, one of them longer than a single value, shifted
\* by a constant other than 0.
C21_Witness ==
    /\ ret.op = "sub_bound"
    /\ ret.args[2] = -1
    /\ A.intervals = <<interval_new(MinValue, MinValue + 1), interval_new(MaxValue - 1, MaxValue - 1)>>
    /\ ret.val.intervals = <<interval_new(MinValue + 1, MinValue + 2), interval_new(MaxValue, MaxValue)>>

\* C22: for a canonical set S and any constant c whose products stay in the
\* bound range, S * c completes without an assertion failure and is
\* canonical with a consistent cached size: empty * c is empty, S * 0 is {0},
\* S * 1 equals S, and the result equals the set-set product S * {c}, for
\* negative c and two or more intervals as well.
C22_ScalarProductIsCanonical ==
    ret.op = "mul_bound" =>
        LET c == ret.args[2]
        IN /\ ret.val.ok
           /\ Canonical(ret.val)
           /\ size(ret.val) = SumOfSizes(ret.val.intervals) % SizeModulus
           /\ is_empty(A) => ret.val = empty
           /\ (~is_empty(A) /\ c = 0) => eq(ret.val, singleton(0))
           /\ c = 1 => eq(ret.val, A)
           /\ eq(ret.val, mul(A, singleton(c)))

(***************************************************************************)
(* Shrinking.                                                              *)
(***************************************************************************)
\* C24: for a canonical set S and a bound b, shrink_left(b) holds exactly
\* the values x of S with x >= b and shrink_right(b) exactly those with
\* x <= b, whether b lies inside an interval, in a gap, below or above the
\* span, on the minimum or maximum of S, or S is empty; the result is a
\* canonical set built without an assertion failing.
C24_ShrinkKeepsExactlyOneSide ==
    /\ ret.op = "shrink_left" =>
           /\ Values(ret.val) = {x \in Values(A) : x >= ret.args[2]}
           /\ ret.val.ok /\ Canonical(ret.val)
           /\ size(ret.val) = SumOfSizes(ret.val.intervals) % SizeModulus
    /\ ret.op = "shrink_right" =>
           /\ Values(ret.val) = {x \in Values(A) : x <= ret.args[2]}
           /\ ret.val.ok /\ Canonical(ret.val)
           /\ size(ret.val) = SumOfSizes(ret.val.intervals) % SizeModulus

\* shrink_left with a bound inside the first of two intervals: the interval
\* is cut and the second one kept.
C24_Witness ==
    /\ ret.op = "shrink_left"
    /\ ret.args[2] = MinValue + 1
    /\ A.intervals = <<interval_new(MinValue, MinValue + 1), interval_new(MaxValue, MaxValue)>>
    /\ ret.val.intervals = <<interval_new(MinValue + 1, MinValue + 1), interval_new(MaxValue, MaxValue)>>

(***************************************************************************)
(* Frame.                                                                  *)
(***************************************************************************)
\* C23: every public operation other than extend leaves its operands
\* unchanged; extend is the only public operation through which the stored
\* intervals change, so no public operation, the mutable iteration of
\* iter_mut and of IntoIterator for &mut IntervalSet included, alters a
\* stored interval without the set staying canonical with a cached size
\* equal to the sum of its interval sizes.
C23_OnlyExtendChangesStoredIntervals ==
    [][/\ B' = B
       /\ A' # A => ret'.op = "extend"
       /\ A'.intervals # A.intervals =>
              /\ Canonical(A')
              /\ size(A') = SumOfSizes(A'.intervals) % SizeModulus]_vars

(***************************************************************************)
(* Width of the cached size.                                               *)
(***************************************************************************)
\* C25: whole() is the single interval [min..max] with size max - min + 1,
\* which the size type holds (at most SizeModulus - 1); every set reachable
\* through constructors, extend and set algebra has a cached size of at most
\* whole().size(), and no addition of push made while building it wrapped
\* around.
C25_SizeNeverExceedsWhole ==
    /\ whole.intervals = <<interval_new(MinValue, MaxValue)>>
    /\ size(whole) = MaxValue - MinValue + 1
    /\ MaxValue - MinValue + 1 <= SizeModulus - 1
    /\ ~whole.wrapped
    /\ \A d \in Registers :
           /\ size(Reg(d)) <= size(whole)
           /\ SumOfSizes(Reg(d).intervals) <= size(whole)
           /\ ~Reg(d).wrapped

\* A set of the largest size, reached by joining the intervals of two sets
\* that are not whole().
C25_Witness ==
    /\ interval_count(A) = 2
    /\ B = union(A, complement(A))
    /\ size(B) = SizeModulus - 1
    /\ B.intervals = <<interval_new(MinValue, MaxValue)>>

(***************************************************************************)
(* Locator.                                                                *)
(***************************************************************************)
\* C26: find_interval(v) on a canonical set S is None exactly when S is
\* empty or v lies below the first lower bound or above the last upper
\* bound; otherwise it is (i, i) when v lies inside interval i and (i, i + 1)
\* when v lies in the gap between intervals i and i + 1; and
\* find_interval_between gives that same answer from any window
\* [left, right] whose span contains v.
C26_FindIntervalLocatesValue ==
    LET v       == ret.args[2]
        n       == interval_count(A)
        outside == \/ n = 0
                   \/ v < At(A.intervals, 0).lb
                   \/ v > At(A.intervals, n - 1).ub
        located == \/ \E i \in 0..(n - 1) :
                          /\ interval_contains(At(A.intervals, i), v)
                          /\ ret.val = <<i, i>>
                   \/ \E i \in 0..(n - 2) :
                          /\ At(A.intervals, i).ub < v
                          /\ v < At(A.intervals, i + 1).lb
                          /\ ret.val = <<i, i + 1>>
    IN /\ ret.op = "find_interval" =>
              /\ (ret.val = None) <=> outside
              /\ ret.val # None => located
       /\ ret.op = "find_interval_between" => ~outside /\ located

\* A window that is not the whole set, with the value in the gap between
\* its two intervals.
C26_Witness ==
    /\ ret.op = "find_interval_between"
    /\ interval_count(A) = 3
    /\ ret.args[3] = 1 /\ ret.args[4] = 2
    /\ ret.val = <<1, 2>>

(***************************************************************************)
(* Out-of-order input to the append-only store.                            *)
(***************************************************************************)
\* The store s is not empty and the non-empty interval x starts below the
\* lower bound of its last interval.
OutOfOrder(s, x) == ~is_empty(s) /\ ~interval_is_empty(x) /\ x.lb < back(s).lb

\* C27: with debug assertions enabled, join_or_push called, directly or by
\* extend_at_back, on a non-empty store with an interval whose lower bound
\* is below the last stored lower bound fails with the assertion "This
\* operation is only for pushing interval to the back of the array ..."
\* before the store is modified: the stored intervals and the cached size
\* are what they were before that call, the intervals pushed earlier by the
\* same extend_at_back staying pushed.
C27_OutOfOrderPanicsBeforeModifying ==
    /\ (ret.op = "join_or_push_debug" /\ OutOfOrder(C, ret.args[1])) =>
           /\ ret.val.panic = OnlyToTheBack
           /\ A.intervals = C.intervals
           /\ size(A) = size(C)
    /\ ret.op = "extend_at_back_debug" =>
           \A k \in 1..Len(ret.args[1]) :
               LET before == extend_at_back(C, SubSeq(ret.args[1], 1, k - 1))
               IN (before.ok /\ OutOfOrder(before, ret.args[1][k])) =>
                      /\ ret.val.panic = OnlyToTheBack
                      /\ ret.val.at = k
                      /\ A.intervals = before.intervals
                      /\ size(A) = size(before)

\* extend_at_back on the empty store with two intervals in descending
\* order: the first is pushed, the second stops the call.
C27_Witness ==
    /\ ret.op = "extend_at_back_debug"
    /\ C = empty
    /\ ret.args[1] = <<interval_new(1, MaxValue), interval_new(MinValue, -1)>>
    /\ ret.val.panic = OnlyToTheBack
    /\ ret.val.at = 2
    /\ A.intervals = <<interval_new(1, MaxValue)>>
    /\ size(A) = MaxValue

JoinedOutOfOrder(s, x, r) ==
    LET n == interval_count(s)
    IN /\ interval_count(r) = n
       /\ SubSeq(r.intervals, 1, n - 1) = SubSeq(s.intervals, 1, n - 1)
       /\ back(r) = interval_new(x.lb, Max(back(s).ub, x.ub))
       /\ size(r) = SumOfSizes(r.intervals) % SizeModulus
       /\ Canonical(r) <=> (n = 1 \/ x.lb > At(s.intervals, n - 2).ub + 1)

C29_NoAssertionFailsOnCanonicalInput ==
    /\ ret.op \in {"union", "intersection", "complement"} => ret.val.ok
    /\ ret.op = "difference" => difference_asserts(A, B) /\ ret.val.ok
    /\ ret.op = "symmetric_difference" =>
           symmetric_difference_asserts(A, B) /\ ret.val.ok
    /\ ret.op = "shrink_left" => shrink_left_asserts(A, ret.args[2])
    /\ ret.op = "shrink_right" => shrink_right_asserts(A, ret.args[2])
    /\ ret.op = "is_subset" => is_subset_asserts(A, B)

\* An intersection of three emissions, the last one ending at max where
\* both operands end.
C29_Witness ==
    /\ ret.op = "intersection"
    /\ interval_count(A) = 2 /\ back(A).ub = MaxValue
    /\ interval_count(B) = 2 /\ back(B).ub = MaxValue
    /\ interval_count(ret.val) = 3
    /\ back(ret.val).ub = MaxValue
    /\ ret.val.ok

(***************************************************************************)
(* Progress and termination.                                               *)
(***************************************************************************)
\* C30: every loop of the engine makes progress and terminates.  Each
\* iteration of the merge loops of union, advance_to_first_overlapping and
\* intersection is made with both cursors showing an interval and consumes
\* exactly one interval from exactly one of them, so at most n + m
\* iterations are made; each iteration of find_interval_between that goes on
\* leaves a strictly smaller window; mid_idx - 1 is never evaluated with
\* mid_idx = 0 when the window satisfies the assertions; and every call
\* returns.
C30_LoopsProgressAndTerminate ==
    /\ [][/\ (ret.op \in MergeLoops /\ ret'.op = ret.op) =>
                 /\ BothPeek
                 /\ \/ ret'.args = <<ret.args[1] + 1, ret.args[2]>>
                    \/ ret'.args = <<ret.args[1], ret.args[2] + 1>>
                 /\ ret'.val = ret.val + 1
                 /\ ret'.val <= interval_count(A) + interval_count(B)
          /\ (ret.op = "find_interval_between" /\ ret'.op = ret.op) =>
                 /\ ret'.args[3] - ret'.args[2] < ret.args[3] - ret.args[2]
                 /\ ret'.args[2] >= ret.args[2]
                 /\ ret'.args[3] <= ret.args[3]
                 /\ ret'.args[3] >= -1 + ret'.args[2]
          /\ ret'.op # "find_panicked"]_vars
    /\ <>(ret.op \in Finished)

\* The binary search on a set of three intervals after one iteration that
\* went left of interval 1: mid_idx - 1 was evaluated with mid_idx = 1.
C30_Witness ==
    /\ ret.op = "find_interval_between"
    /\ interval_count(A) = 3
    /\ ret.val = 1
    /\ ret.args[2] = 0
    /\ ret.args[3] = 0

====
